---- MODULE Spec2Model ----
(***************************************************************************)
(* The object registry and mark-and-sweep collector of                     *)
(* Source/Runtime/ObjectGC.cpp: GCGlobals (mutex + allObjects), the        *)
(* ObjectImpl constructor, addGCRoot, removeGCRoot and collectGarbage.     *)
(* collectGarbage is split at the points where another thread can          *)
(* interleave: the lock acquisition, every iteration of the root loop, of  *)
(* the mark loop, of the sweep loop (erase and finalize apart) and of the  *)
(* delete loop, and the final log line that releases the lock.             *)
(***************************************************************************)
EXTENDS Integers, Sequences, FiniteSets, TLC

\* ------------------------------------------------------------------ bounds
NumObjects == 3         \* object identities (addresses) that can be constructed
NumThreads == 2         \* threads that may call into the runtime
MaxRootOps == 3         \* addGCRoot + removeGCRoot calls in one behaviour
MaxRaceOps == 1         \* of those, calls made while a collection holds the lock
MaxEdgeOps == 3         \* field writes by the object kinds in one behaviour
MaxElems == 2           \* length of a table's or module's reference vector
MaxCollections == 2     \* collectGarbage calls in one behaviour
MaxCalls == 4           \* calls on constructed objects in one behaviour: root
                        \* calls, field writes, collections, re-registrations
MaxReRegistrations == 1 \* constructor calls on registered objects in one behaviour
UptrBits == 16          \* bits of the root counter (an Uptr; pointer width in the
                        \* source, never reached by MaxRootOps calls)

\* ------------------------------------------------------- program constants
UptrModulus == 2 ^ UptrBits

NULL == 0               \* the null Object*
NoThread == 0           \* the mutex is not held
Objects == 1 .. NumObjects
Threads == 1 .. NumThreads
End == NumObjects + 1   \* allObjects.end()

\* ObjectKind: the eight kinds the switch names, and a value it does not.
DeclaredKinds ==
    {"function", "table", "memory", "global", "module", "context",
     "compartment", "exceptionType"}
InvalidKind == "invalid"
ObjectKinds == DeclaredKinds \cup {InvalidKind}
NoKind == "none"        \* an identity no constructor has run for yet

\* The kinds handed to successive constructor calls, one plan per behaviour.
\* Together the plans construct every kind, a cycle through three kinds, a
\* function with its module and the module's compartment, two objects of one
\* kind, and an object of an undeclared kind.
KindPlans ==
    {<<"table", "function", "module">>,
     <<"compartment", "module", "module">>,
     <<"table", "memory", "module">>,
     <<"global", "context", "compartment">>,
     <<"function", "module", "compartment">>,
     <<"invalid", "table", "exceptionType">>}
PlannedKind(p, i) == p[((i - 1) % Len(p)) + 1]

\* The reference fields the collector reads, by the name the source gives them.
PointerFields ==
    {"moduleInstance", "compartment", "defaultMemory", "defaultTable",
     "wavmIntrinsics"}
ModuleVectors == {"functionDefs", "functions", "tables", "memories", "globals"}

NullFields ==
    [moduleInstance |-> NULL, compartment |-> NULL, elements |-> <<>>,
     functionDefs |-> <<>>, functions |-> <<>>, tables |-> <<>>,
     memories |-> <<>>, globals |-> <<>>, defaultMemory |-> NULL,
     defaultTable |-> NULL, wavmIntrinsics |-> NULL]

VARIABLES
    allObjects,           \* GCGlobals::allObjects
    mutex,                \* GCGlobals::mutex: the thread holding it, or NoThread
    nextObject,           \* the identity the next constructor call gets
    plan,                 \* the kinds the constructor calls will be given
    kind,                 \* Object::kind
    numRootReferences,    \* ObjectImpl::numRootReferences
    fields,               \* the reference fields of each object
    pc,                   \* where each thread is inside collectGarbage
    referencedObjects,    \* collectGarbage locals, per thread
    pendingScanObjects,
    numRoots,
    objectIt,             \* the root loop's and the sweep loop's iterator
    sweepObject,          \* `object` of the sweep loop's else branch
    finalizedObjects,
    deleteIt,             \* position of the delete loop in finalizedObjects
    metrics,              \* the last "Collected garbage" log line
    fatal,                \* how the process ended, or "none"
    \* history of the behaviour, read by the properties only
    finalizeCount,        \* finalize() calls per object
    destroyCount,         \* delete calls per object
    registrations,        \* constructor calls per object identity
    adds,                 \* addGCRoot calls per object
    removes,              \* removeGCRoot calls per object
    edgeOps,              \* field writes so far
    numCollections,       \* collectGarbage calls that took the lock
    startRegistry,        \* allObjects when the running/last collection locked
    startRoots,           \* objects with a positive count at that moment
    raceOps,              \* root calls made since that moment under the lock
    racedOn,              \* the objects those calls were made on
    dirty,                \* a call changed the heap since a collection returned
    prevClean,            \* no call changed the heap between the previous
                          \* collection taking the lock and this one taking it
    pushCount,            \* push_back calls on pendingScanObjects, per object,
                          \* made by the collection that holds the lock
    scanCount             \* mark-loop iterations per object of that collection

vars ==
    <<allObjects, mutex, nextObject, plan, kind, numRootReferences, fields, pc,
      referencedObjects, pendingScanObjects, numRoots, objectIt, sweepObject,
      finalizedObjects, deleteIt, metrics, fatal, finalizeCount,
      destroyCount, registrations, adds, removes, edgeOps, numCollections, startRegistry,
      startRoots, raceOps, racedOn, dirty, prevClean, pushCount, scanCount>>

heapVars == <<nextObject, plan, kind, fields>>
localVars ==
    <<referencedObjects, pendingScanObjects, numRoots, objectIt, sweepObject,
      finalizedObjects, deleteIt>>
eventVars == <<finalizeCount, destroyCount, registrations>>
rootHist == <<adds, removes>>
gcHist == <<numCollections, startRegistry, startRoots, prevClean>>
raceHist == <<raceOps, racedOn>>
markHist == <<pushCount, scanCount>>

\* ----------------------------------------------------------------- helpers
Constructed == 1 .. (nextObject - 1)

Min(S) == CHOOSE x \in S : \A y \in S : x <= y

\* std::set iteration in pointer order: begin(), and the iterator after o.
Begin(S) == IF S = {} THEN End ELSE Min(S)
NextAfter(S, o) == Begin({x \in S : x > o})

SeqToSet(s) == {s[i] : i \in 1 .. Len(s)}

\* Uptr arithmetic of ++ and -- on the root counter.
Increment(c) == (c + 1) % UptrModulus
Decrement(c) == (c - 1) % UptrModulus

\* Mutant of IsRoot: the comparison written >= instead of >.
IsRootNonNegative(o) == numRootReferences[o] >= 0

\* line 62: object->numRootReferences > 0
IsRoot(o) == numRootReferences[o] > 0

\* Mutant of FunctionReferences: the case pushes nothing.
FunctionReferencesNone(f) == <<>>

\* lines 80-85: case ObjectKind::function
FunctionReferences(f) == <<f.moduleInstance>>

\* Mutant of TableReferences: the case pushes the compartment and not the
\* elements.
TableReferencesWithoutElements(f) == <<f.compartment>>

\* lines 86-92: case ObjectKind::table
TableReferences(f) == <<f.compartment>> \o f.elements

\* lines 93-104, 118-123: memory, global and context push their compartment.
CompartmentReference(f) == <<f.compartment>>

\* Mutant of ModuleReferences: the case pushes the two defaults only.
ModuleReferencesDefaultsOnly(f) == <<f.defaultMemory, f.defaultTable>>

\* lines 105-117: case ObjectKind::module. Each insert at begin() puts its
\* vector in front of what was gathered before it.
ModuleReferences(f) ==
    f.globals \o f.memories \o f.tables \o f.functions \o f.functionDefs
        \o <<f.compartment>> \o <<f.defaultMemory, f.defaultTable>>

\* lines 124-129: case ObjectKind::compartment
CompartmentReferences(f) == <<f.wavmIntrinsics>>

\* lines 76-135: the child references gathered for a scanned object.
ChildReferences(o) ==
    LET f == fields[o] IN
    CASE kind[o] = "function" -> FunctionReferences(f)
      [] kind[o] = "table" -> TableReferences(f)
      [] kind[o] = "memory" -> CompartmentReference(f)
      [] kind[o] = "global" -> CompartmentReference(f)
      [] kind[o] = "module" -> ModuleReferences(f)
      [] kind[o] = "context" -> CompartmentReference(f)
      [] kind[o] = "compartment" -> CompartmentReferences(f)
      [] kind[o] = "exceptionType" -> <<>>
      [] OTHER -> <<>>

\* Mutant of HasCase: the default case falls through instead of ending the
\* process.
HasCaseAny(k) == TRUE

\* line 134: the switch has a case for the kind (default is unreachable()).
HasCase(k) == k \in DeclaredKinds

\* Mutant of ShouldEnqueue: the reference is not looked up in the referenced
\* set before it is pushed.
ShouldEnqueueUnvisited(reference, referenced) == reference # NULL

\* Mutant of ShouldEnqueue: the reference is not tested for null.
ShouldEnqueueNull(reference, referenced) == reference \notin referenced

\* line 140: the test that lets a child reference into the referenced set.
ShouldEnqueue(reference, referenced) ==
    reference # NULL /\ reference \notin referenced

\* lines 138-145: fold the child references into the set and the work list.
RECURSIVE Enqueue(_, _, _)
Enqueue(children, referenced, pending) ==
    IF children = <<>>
    THEN [referenced |-> referenced, pending |-> pending]
    ELSE LET reference == Head(children) IN
         IF ShouldEnqueue(reference, referenced)
         THEN Enqueue(Tail(children), referenced \cup {reference},
                      Append(pending, reference))
         ELSE Enqueue(Tail(children), referenced, pending)

\* line 142: the push_back calls one mark-loop iteration made for o: the
\* entries equal to o that the work list gained behind what was left of it.
PushesOf(o, before, after) ==
    Cardinality({i \in (Len(before) + 1) .. Len(after) : after[i] = o})

\* Mutant of IsReferenced: the sweep finds no object in the referenced set.
IsReferencedNever(t, o) == FALSE

\* line 153: referencedObjects.count(*objectIt)
IsReferenced(t, o) == o \in referencedObjects[t]

\* Mutant of Insert: the constructor does not register the object.
InsertNothing(S, o) == S

\* line 34: allObjects.insert(this)
Insert(S, o) == S \cup {o}

\* Mutant of AfterErase: the iterator is advanced once more after the erase.
AfterEraseSkipsOne(S, o) == NextAfter(S, NextAfter(S, o))

\* line 157: objectIt = allObjects.erase(objectIt): the iterator that follows.
AfterErase(S, o) == NextAfter(S, o)

\* ------------------------------------------------------------ initial state
Init ==
    /\ allObjects = {}
    /\ mutex = NoThread
    /\ nextObject = 1
    /\ plan \in KindPlans
    /\ kind = [o \in Objects |-> NoKind]
    /\ numRootReferences = [o \in Objects |-> 0]
    /\ fields = [o \in Objects |-> NullFields]
    /\ pc = [t \in Threads |-> "idle"]
    /\ referencedObjects = [t \in Threads |-> {}]
    /\ pendingScanObjects = [t \in Threads |-> <<>>]
    /\ numRoots = [t \in Threads |-> 0]
    /\ objectIt = [t \in Threads |-> End]
    /\ sweepObject = [t \in Threads |-> NULL]
    /\ finalizedObjects = [t \in Threads |-> <<>>]
    /\ deleteIt = [t \in Threads |-> 1]
    /\ metrics = [numRoots |-> 0, numObjects |-> 0, numGarbage |-> 0]
    /\ fatal = "none"
    /\ finalizeCount = [o \in Objects |-> 0]
    /\ destroyCount = [o \in Objects |-> 0]
    /\ registrations = [o \in Objects |-> 0]
    /\ adds = [o \in Objects |-> 0]
    /\ removes = [o \in Objects |-> 0]
    /\ edgeOps = 0
    /\ numCollections = 0
    /\ startRegistry = {}
    /\ startRoots = {}
    /\ raceOps = 0
    /\ racedOn = {}
    /\ dirty = FALSE
    /\ prevClean = FALSE
    /\ pushCount = [o \in Objects |-> 0]
    /\ scanCount = [o \in Objects |-> 0]

\* ------------------------------------------------ fields of the object kinds
\* The pointer fields each kind has, and the kind each field points to.
PointerFieldsOf(k) ==
    CASE k = "function" -> {"moduleInstance"}
      [] k \in {"table", "memory", "global", "context"} -> {"compartment"}
      [] k = "module" -> {"compartment", "defaultMemory", "defaultTable"}
      [] k = "compartment" -> {"wavmIntrinsics"}
      [] OTHER -> {}

FieldKind(f) ==
    CASE f \in {"moduleInstance", "wavmIntrinsics"} -> "module"
      [] f = "compartment" -> "compartment"
      [] f \in {"defaultMemory", "memories"} -> "memory"
      [] f \in {"defaultTable", "tables"} -> "table"
      [] f \in {"functionDefs", "functions"} -> "function"
      [] f = "globals" -> "global"

Running == fatal = "none"
Idle(t) == Running /\ pc[t] = "idle"
\* Some thread is outside collectGarbage and can make a call.
SomeIdle == \E t \in Threads : Idle(t)

\* f[1] + ... + f[n]
RECURSIVE SumTo(_, _)
SumTo(f, n) == IF n = 0 THEN 0 ELSE f[n] + SumTo(f, n - 1)

RootOps == SumTo(adds, NumObjects) + SumTo(removes, NumObjects)

\* Constructor calls made so far on objects that were registered.
ReRegistrations == SumTo(registrations, NumObjects) - Cardinality(Constructed)

\* Calls made so far on the constructed objects.
Calls == RootOps + edgeOps + numCollections + ReRegistrations
CallAllowed == Calls < MaxCalls

\* A root call is within the bounds of the behaviour.
RootOpAllowed ==
    /\ CallAllowed
    /\ RootOps < MaxRootOps
    /\ mutex # NoThread => raceOps < MaxRaceOps

\* ---------------------------------------------------------------- actions
\* lines 29-35: ObjectImpl::ObjectImpl(inKind): the object gets its kind and a
\* zero root count, then is inserted into allObjects under the lock.
Construct(inKind) ==
    /\ mutex = NoThread
    /\ SomeIdle
    /\ nextObject <= NumObjects
    /\ inKind = PlannedKind(plan, nextObject)
    /\ kind' = [kind EXCEPT ![nextObject] = inKind]
    /\ numRootReferences' = [numRootReferences EXCEPT ![nextObject] = 0]
    /\ allObjects' = Insert(allObjects, nextObject)
    /\ nextObject' = nextObject + 1
    /\ registrations' = [registrations EXCEPT ![nextObject] = @ + 1]
    /\ dirty' = TRUE
    /\ UNCHANGED <<mutex, plan, fields, pc, localVars, metrics, fatal,
                   finalizeCount, destroyCount, rootHist, edgeOps, gcHist,
                   raceHist, markHist>>

\* lines 29-35 run on an object that is in allObjects already (a constructor
\* call on storage whose earlier registration was never erased): the kind and
\* the root count are initialised again and the insert finds the element.
ConstructAt(o, inKind) ==
    /\ mutex = NoThread
    /\ SomeIdle
    /\ o \in allObjects
    /\ CallAllowed
    /\ ReRegistrations < MaxReRegistrations
    /\ kind' = [kind EXCEPT ![o] = inKind]
    /\ numRootReferences' = [numRootReferences EXCEPT ![o] = 0]
    /\ allObjects' = Insert(allObjects, o)
    /\ registrations' = [registrations EXCEPT ![o] = @ + 1]
    /\ dirty' = TRUE
    /\ UNCHANGED <<mutex, nextObject, plan, fields, pc, localVars, metrics,
                   fatal, finalizeCount, destroyCount, rootHist, edgeOps,
                   gcHist, raceHist, markHist>>

\* What a root call on o leaves in the history.
RootCallHistory(o) ==
    IF mutex # NoThread
    THEN /\ raceOps' = raceOps + 1
         /\ racedOn' = racedOn \cup {o}
         /\ UNCHANGED dirty
    ELSE /\ dirty' = TRUE
         /\ UNCHANGED <<raceOps, racedOn>>

\* A root call on an object that was already deleted writes freed memory: the
\* write lands there, or the process dies.
FreedWrite(o) ==
    IF destroyCount[o] > 0 THEN {"none", "useAfterFree"} ELSE {"none"}

\* lines 37-41: addGCRoot: ++numRootReferences, without the lock.
addGCRoot(o) ==
    /\ SomeIdle
    /\ o \in Constructed
    /\ RootOpAllowed
    /\ numRootReferences' =
           [numRootReferences EXCEPT ![o] = Increment(numRootReferences[o])]
    /\ adds' = [adds EXCEPT ![o] = @ + 1]
    /\ RootCallHistory(o)
    /\ fatal' \in FreedWrite(o)
    /\ UNCHANGED <<allObjects, mutex, heapVars, pc, localVars, metrics,
                   eventVars, removes, edgeOps, gcHist, markHist>>

\* lines 43-47: removeGCRoot: --numRootReferences, without the lock.
removeGCRoot(o) ==
    /\ SomeIdle
    /\ o \in Constructed
    /\ RootOpAllowed
    /\ numRootReferences' =
           [numRootReferences EXCEPT ![o] = Decrement(numRootReferences[o])]
    /\ removes' = [removes EXCEPT ![o] = @ + 1]
    /\ RootCallHistory(o)
    /\ fatal' \in FreedWrite(o)
    /\ UNCHANGED <<allObjects, mutex, heapVars, pc, localVars, metrics,
                   eventVars, adds, edgeOps, gcHist, markHist>>

\* Field writes of the object kinds. They run outside any collection, on a
\* registered object, and store a registered object of the field's kind.
WriteField(o, f, v) ==
    /\ mutex = NoThread
    /\ CallAllowed
    /\ edgeOps < MaxEdgeOps
    /\ fields' = [fields EXCEPT ![o][f] = v]
    /\ edgeOps' = edgeOps + 1
    /\ dirty' = TRUE
    /\ UNCHANGED <<allObjects, mutex, nextObject, plan, kind,
                   numRootReferences, pc, localVars, metrics, fatal,
                   eventVars, rootHist, gcHist, raceHist, markHist>>

Targets(f) == {v \in allObjects : kind[v] = FieldKind(f)}

\* A pointer field is set once, after construction.
setPointer(o, f, v) ==
    /\ mutex = NoThread
    /\ SomeIdle
    /\ o \in allObjects
    /\ f \in PointerFieldsOf(kind[o])
    /\ fields[o][f] = NULL
    /\ v \in Targets(f)
    /\ WriteField(o, f, v)

\* A module's instance vectors grow by push_back.
pushInstance(o, f, v) ==
    /\ mutex = NoThread
    /\ SomeIdle
    /\ o \in allObjects
    /\ kind[o] = "module"
    /\ f \in ModuleVectors
    /\ Len(fields[o][f]) < MaxElems
    /\ v \in Targets(f)
    /\ WriteField(o, f, Append(fields[o][f], v))

\* A table element is any object or null; the table grows by one element or
\* has an existing element overwritten.
setTableElement(o, i, v) ==
    /\ mutex = NoThread
    /\ SomeIdle
    /\ o \in allObjects
    /\ kind[o] = "table"
    /\ i \in 1 .. MaxElems
    /\ i <= Len(fields[o].elements) + 1
    /\ v \in allObjects \cup {NULL}
    /\ IF i = Len(fields[o].elements) + 1
       THEN WriteField(o, "elements", Append(fields[o].elements, v))
       ELSE /\ fields[o].elements[i] # v
            /\ WriteField(o, "elements", [fields[o].elements EXCEPT ![i] = v])

\* --------------------------------------------------------- collectGarbage
\* Mutant of CanLock: collectGarbage does not wait for the mutex.
CanLockAlways == TRUE

\* Platform::Lock lock(gcGlobals.mutex): the mutex can be taken.
CanLock == mutex = NoThread

\* lines 49-59: take the lock, declare the locals, start the root loop.
\* Threads are interchangeable: the call is made by the lowest idle thread.
CollectLock(t) ==
    /\ Idle(t)
    /\ \A u \in Threads : u < t => ~Idle(u)
    /\ CanLock
    /\ CallAllowed
    /\ numCollections < MaxCollections
    /\ mutex' = t
    /\ referencedObjects' = [referencedObjects EXCEPT ![t] = {}]
    /\ pendingScanObjects' = [pendingScanObjects EXCEPT ![t] = <<>>]
    /\ numRoots' = [numRoots EXCEPT ![t] = 0]
    /\ objectIt' = [objectIt EXCEPT ![t] = Begin(allObjects)]
    /\ finalizedObjects' = [finalizedObjects EXCEPT ![t] = <<>>]
    /\ deleteIt' = [deleteIt EXCEPT ![t] = 1]
    /\ pc' = [pc EXCEPT ![t] = "roots"]
    /\ numCollections' = numCollections + 1
    /\ startRegistry' = allObjects
    /\ startRoots' = {o \in allObjects : numRootReferences[o] > 0}
    /\ prevClean' = (numCollections > 0 /\ ~dirty /\ raceOps = 0)
    /\ raceOps' = 0
    /\ racedOn' = {}
    /\ pushCount' = [o \in Objects |-> 0]
    /\ scanCount' = [o \in Objects |-> 0]
    /\ UNCHANGED <<allObjects, heapVars, numRootReferences, sweepObject,
                   metrics, fatal, eventVars, rootHist, edgeOps, dirty>>

\* lines 60-68: one iteration of the root loop.
ScanRoot(t) ==
    /\ Running
    /\ pc[t] = "roots"
    /\ objectIt[t] # End
    /\ LET object == objectIt[t] IN
        /\ IF IsRoot(object)
           THEN /\ referencedObjects' =
                       [referencedObjects EXCEPT ![t] = @ \cup {object}]
                /\ pendingScanObjects' =
                       [pendingScanObjects EXCEPT ![t] = Append(@, object)]
                /\ numRoots' = [numRoots EXCEPT ![t] = Increment(@)]
                /\ pushCount' = [pushCount EXCEPT ![object] = @ + 1]
           ELSE UNCHANGED <<referencedObjects, pendingScanObjects, numRoots,
                            pushCount>>
        /\ objectIt' = [objectIt EXCEPT ![t] = NextAfter(allObjects, object)]
    /\ UNCHANGED <<allObjects, mutex, heapVars, numRootReferences, pc,
                   sweepObject, finalizedObjects, deleteIt, metrics, fatal,
                   eventVars, rootHist, edgeOps, gcHist, raceHist, dirty,
                   scanCount>>

\* line 71 after the root loop ended: the mark loop starts.
MarkBegin(t) ==
    /\ Running
    /\ pc[t] = "roots"
    /\ objectIt[t] = End
    /\ pc' = [pc EXCEPT ![t] = "mark"]
    /\ UNCHANGED <<allObjects, mutex, heapVars, numRootReferences, localVars,
                   metrics, fatal, eventVars, rootHist, edgeOps, gcHist,
                   raceHist, markHist, dirty>>

\* lines 71-146: one iteration of the mark loop on an object the switch has a
\* case for: pop it, gather its child references, enqueue the new ones.
ScanObject(t) ==
    /\ Running
    /\ pc[t] = "mark"
    /\ pendingScanObjects[t] # <<>>
    /\ LET pending == pendingScanObjects[t]
           scanObject == pending[Len(pending)]
           popped == SubSeq(pending, 1, Len(pending) - 1)
           next == Enqueue(ChildReferences(scanObject),
                           referencedObjects[t], popped)
       IN /\ HasCase(kind[scanObject])
          /\ referencedObjects' =
                 [referencedObjects EXCEPT ![t] = next.referenced]
          /\ pendingScanObjects' =
                 [pendingScanObjects EXCEPT ![t] = next.pending]
          /\ pushCount' =
                 [o \in Objects |->
                     pushCount[o] + PushesOf(o, popped, next.pending)]
          /\ scanCount' = [scanCount EXCEPT ![scanObject] = @ + 1]
    /\ UNCHANGED <<allObjects, mutex, heapVars, numRootReferences, pc,
                   numRoots, objectIt, sweepObject, finalizedObjects,
                   deleteIt, metrics, fatal, eventVars, rootHist, edgeOps,
                   gcHist, raceHist, dirty>>

\* Errors::unreachable(): the process ends with a fatal error.
ErrorsUnreachable == "unreachable"

\* line 134: the scanned object's kind has no case: Errors::unreachable().
ScanUnreachable(t) ==
    /\ Running
    /\ pc[t] = "mark"
    /\ pendingScanObjects[t] # <<>>
    /\ LET pending == pendingScanObjects[t]
       IN ~HasCase(kind[pending[Len(pending)]])
    /\ fatal' = ErrorsUnreachable
    /\ UNCHANGED <<allObjects, mutex, heapVars, numRootReferences, pc,
                   localVars, metrics, eventVars, rootHist, edgeOps, gcHist,
                   raceHist, markHist, dirty>>

\* lines 148-151: the work list is empty; the sweep loop starts.
SweepBegin(t) ==
    /\ Running
    /\ pc[t] = "mark"
    /\ pendingScanObjects[t] = <<>>
    /\ objectIt' = [objectIt EXCEPT ![t] = Begin(allObjects)]
    /\ pc' = [pc EXCEPT ![t] = "sweep"]
    /\ UNCHANGED <<allObjects, mutex, heapVars, numRootReferences,
                   referencedObjects, pendingScanObjects, numRoots,
                   sweepObject, finalizedObjects, deleteIt, metrics, fatal,
                   eventVars, rootHist, edgeOps, gcHist, raceHist, markHist, dirty>>

\* line 153: the object was reached: ++objectIt.
SweepKeep(t) ==
    /\ Running
    /\ pc[t] = "sweep"
    /\ objectIt[t] # End
    /\ IsReferenced(t, objectIt[t])
    /\ objectIt' = [objectIt EXCEPT ![t] = NextAfter(allObjects, objectIt[t])]
    /\ UNCHANGED <<allObjects, mutex, heapVars, numRootReferences, pc,
                   referencedObjects, pendingScanObjects, numRoots,
                   sweepObject, finalizedObjects, deleteIt, metrics, fatal,
                   eventVars, rootHist, edgeOps, gcHist, raceHist, markHist, dirty>>

\* lines 156-157: the object was not reached: erase it from allObjects.
SweepErase(t) ==
    /\ Running
    /\ pc[t] = "sweep"
    /\ objectIt[t] # End
    /\ ~IsReferenced(t, objectIt[t])
    /\ sweepObject' = [sweepObject EXCEPT ![t] = objectIt[t]]
    /\ allObjects' = allObjects \ {objectIt[t]}
    /\ objectIt' = [objectIt EXCEPT ![t] = AfterErase(allObjects, objectIt[t])]
    /\ pc' = [pc EXCEPT ![t] = "finalize"]
    /\ UNCHANGED <<mutex, heapVars, numRootReferences, referencedObjects,
                   pendingScanObjects, numRoots, finalizedObjects, deleteIt,
                   metrics, fatal, eventVars, rootHist, edgeOps, gcHist,
                   raceHist, markHist, dirty>>

\* Mutant of SweepFinalize: the object is queued for deletion without its
\* finalizer having been called.
SweepWithoutFinalize(t) ==
    /\ Running
    /\ pc[t] = "finalize"
    /\ finalizedObjects' =
           [finalizedObjects EXCEPT ![t] = Append(@, sweepObject[t])]
    /\ sweepObject' = [sweepObject EXCEPT ![t] = NULL]
    /\ pc' = [pc EXCEPT ![t] = "sweep"]
    /\ UNCHANGED <<allObjects, mutex, heapVars, numRootReferences,
                   referencedObjects, pendingScanObjects, numRoots, objectIt,
                   deleteIt, metrics, fatal, eventVars, rootHist, edgeOps,
                   gcHist, raceHist, markHist, dirty>>

\* lines 158-159: finalize the erased object and remember it for deletion.
SweepFinalize(t) ==
    /\ Running
    /\ pc[t] = "finalize"
    /\ finalizeCount' = [finalizeCount EXCEPT ![sweepObject[t]] = @ + 1]
    /\ finalizedObjects' =
           [finalizedObjects EXCEPT ![t] = Append(@, sweepObject[t])]
    /\ sweepObject' = [sweepObject EXCEPT ![t] = NULL]
    /\ pc' = [pc EXCEPT ![t] = "sweep"]
    /\ UNCHANGED <<allObjects, mutex, heapVars, numRootReferences,
                   referencedObjects, pendingScanObjects, numRoots, objectIt,
                   deleteIt, metrics, fatal, destroyCount, registrations,
                   rootHist, edgeOps, gcHist, raceHist, markHist, dirty>>

\* Mutant of DeleteBegin: the delete loop starts while the sweep loop still
\* has objects to visit.
DeleteBeginEarly(t) ==
    /\ Running
    /\ pc[t] = "sweep"
    /\ deleteIt' = [deleteIt EXCEPT ![t] = 1]
    /\ pc' = [pc EXCEPT ![t] = "delete"]
    /\ UNCHANGED <<allObjects, mutex, heapVars, numRootReferences,
                   referencedObjects, pendingScanObjects, numRoots, objectIt,
                   sweepObject, finalizedObjects, metrics, fatal, eventVars,
                   rootHist, edgeOps, gcHist, raceHist, markHist, dirty>>

\* line 164 after the sweep loop ended: the delete loop starts.
DeleteBegin(t) ==
    /\ Running
    /\ pc[t] = "sweep"
    /\ objectIt[t] = End
    /\ deleteIt' = [deleteIt EXCEPT ![t] = 1]
    /\ pc' = [pc EXCEPT ![t] = "delete"]
    /\ UNCHANGED <<allObjects, mutex, heapVars, numRootReferences,
                   referencedObjects, pendingScanObjects, numRoots, objectIt,
                   sweepObject, finalizedObjects, metrics, fatal, eventVars,
                   rootHist, edgeOps, gcHist, raceHist, markHist, dirty>>

\* lines 164-167: one iteration of the delete loop.
DeleteObject(t) ==
    /\ Running
    /\ pc[t] = "delete"
    /\ deleteIt[t] <= Len(finalizedObjects[t])
    /\ destroyCount' =
           [destroyCount EXCEPT ![finalizedObjects[t][deleteIt[t]]] = @ + 1]
    /\ deleteIt' = [deleteIt EXCEPT ![t] = @ + 1]
    /\ UNCHANGED <<allObjects, mutex, heapVars, numRootReferences, pc,
                   referencedObjects, pendingScanObjects, numRoots, objectIt,
                   sweepObject, finalizedObjects, metrics, fatal,
                   finalizeCount, registrations, rootHist, edgeOps, gcHist,
                   raceHist, markHist, dirty>>

\* lines 169-172: print the metrics; the locals and the lock go out of scope.
LogMetrics(t) ==
    /\ Running
    /\ pc[t] = "delete"
    /\ deleteIt[t] > Len(finalizedObjects[t])
    /\ metrics' =
           [numRoots |-> numRoots[t],
            numObjects |-> Cardinality(allObjects) + Len(finalizedObjects[t]),
            numGarbage |-> Len(finalizedObjects[t])]
    /\ mutex' = NoThread
    /\ pc' = [pc EXCEPT ![t] = "idle"]
    /\ referencedObjects' = [referencedObjects EXCEPT ![t] = {}]
    /\ pendingScanObjects' = [pendingScanObjects EXCEPT ![t] = <<>>]
    /\ numRoots' = [numRoots EXCEPT ![t] = 0]
    /\ objectIt' = [objectIt EXCEPT ![t] = End]
    /\ finalizedObjects' = [finalizedObjects EXCEPT ![t] = <<>>]
    /\ deleteIt' = [deleteIt EXCEPT ![t] = 1]
    /\ dirty' = FALSE
    /\ pushCount' = [o \in Objects |-> 0]
    /\ scanCount' = [o \in Objects |-> 0]
    /\ UNCHANGED <<allObjects, heapVars, numRootReferences, sweepObject,
                   fatal, eventVars, rootHist, edgeOps, gcHist, raceHist>>

Next ==
    \/ Construct(PlannedKind(plan, nextObject))
    \/ \E o \in Constructed : addGCRoot(o)
    \/ \E o \in Constructed : removeGCRoot(o)
    \/ \E o \in allObjects : \E f \in PointerFieldsOf(kind[o]) :
           \E v \in Targets(f) : setPointer(o, f, v)
    \/ \E o \in allObjects : \E f \in ModuleVectors :
           \E v \in Targets(f) : pushInstance(o, f, v)
    \/ \E o \in allObjects : \E i \in 1 .. MaxElems :
           \E v \in allObjects \cup {NULL} : setTableElement(o, i, v)
    \/ \E t \in Threads : CollectLock(t)
    \/ \E t \in Threads : ScanRoot(t)
    \/ \E t \in Threads : MarkBegin(t)
    \/ \E t \in Threads : ScanObject(t)
    \/ \E t \in Threads : ScanUnreachable(t)
    \/ \E t \in Threads : SweepBegin(t)
    \/ \E t \in Threads : SweepKeep(t)
    \/ \E t \in Threads : SweepErase(t)
    \/ \E t \in Threads : SweepFinalize(t)
    \/ \E t \in Threads : DeleteBegin(t)
    \/ \E t \in Threads : DeleteObject(t)
    \/ \E t \in Threads : LogMetrics(t)

Spec == Init /\ [][Next]_vars

\* The program with callers that may also run the constructor on an object
\* that is registered.
RegisterNext ==
    \/ Next
    \/ \E o \in allObjects : ConstructAt(o, kind[o])

RegisterSpec == Init /\ [][RegisterNext]_vars

\* The steps of collectGarbage after it took the lock.
CollectorStep(t) ==
    \/ ScanRoot(t)
    \/ MarkBegin(t)
    \/ ScanObject(t)
    \/ ScanUnreachable(t)
    \/ SweepBegin(t)
    \/ SweepKeep(t)
    \/ SweepErase(t)
    \/ SweepFinalize(t)
    \/ DeleteBegin(t)
    \/ DeleteObject(t)
    \/ LogMetrics(t)

\* The thread inside collectGarbage holds the lock and waits for nothing: it
\* keeps being scheduled until the call returns or the process ends.
LiveSpec == Spec /\ \A t \in Threads : WF_vars(CollectorStep(t))

\* ============================================================== properties
Destroyed == {o \in Objects : destroyCount[o] > 0}
Finalized == {o \in Objects : finalizeCount[o] > 0}

\* The edges each kind declares, as the set of objects they lead to.
DeclaredEdges(o) ==
    LET f == fields[o] IN
    (CASE kind[o] = "function" -> {f.moduleInstance}
       [] kind[o] = "table" -> {f.compartment} \cup SeqToSet(f.elements)
       [] kind[o] \in {"memory", "global", "context"} -> {f.compartment}
       [] kind[o] = "module" ->
             {f.compartment, f.defaultMemory, f.defaultTable}
                 \cup SeqToSet(f.functionDefs) \cup SeqToSet(f.functions)
                 \cup SeqToSet(f.tables) \cup SeqToSet(f.memories)
                 \cup SeqToSet(f.globals)
       [] kind[o] = "compartment" -> {f.wavmIntrinsics}
       [] OTHER -> {}) \ {NULL}

\* The objects a finite chain of declared edges leads to from the objects of S.
RECURSIVE ReachableFrom(_)
ReachableFrom(S) ==
    LET N == S \cup UNION {DeclaredEdges(o) : o \in S}
    IN IF N = S THEN S ELSE ReachableFrom(N)

\* A collectGarbage call has just returned: the lock is free again and no
\* call has changed the heap since.
Returned == Running /\ mutex = NoThread /\ numCollections > 0 /\ ~dirty

\* Invariant I5 for a collection no root call raced with: the survivors are
\* the registered objects reachable from the roots.
SerializedReachability ==
    (Returned /\ raceOps = 0) =>
        allObjects = startRegistry \cap ReachableFrom(startRoots)

\* The objects the collection that is running, or ran last, has erased.
Reclaimed == startRegistry \ allObjects

\* --------------------------------------------------------------------- C1
\* C1 (as claimed): after collectGarbage() returns, the registry holds
\* exactly the previously registered objects that a chain of declared edges
\* reaches from a registered object whose root count was positive when the
\* collection began (took the lock).
C1_SurvivorsAreReachableFromStartRoots ==
    Returned => allObjects = startRegistry \cap ReachableFrom(startRoots)

\* --------------------------------------------------------------------- C2
\* C2 (as claimed): while collectGarbage() holds the lock no root counter
\* changes and no object is registered, so every object registered at the
\* start has the root status it had when the lock was taken.
C2_NoRootChangeUnderLock ==
    mutex # NoThread =>
        /\ raceOps = 0
        /\ startRegistry \subseteq Constructed
        /\ allObjects \subseteq startRegistry
        /\ \A o \in startRegistry : IsRoot(o) <=> o \in startRoots

\* --------------------------------------------------------------------- C3
\* C3: every reclaimed object is first erased from the registry, then
\* finalized, then deleted: a finalized object is not in the registry, a
\* deleted object has been finalized, a collection deletes only objects it
\* erased, and when it returns everything it erased is finalized and deleted.
C3_EraseFinalizeDestroyOrder ==
    /\ \A o \in Finalized : o \notin allObjects
    /\ \A o \in Destroyed : o \in Finalized
    /\ \A t \in Threads :
          /\ pc[t] = "finalize" =>
                 sweepObject[t] \notin allObjects \cup Finalized
          /\ \A i \in 1 .. Len(finalizedObjects[t]) :
                 /\ finalizedObjects[t][i] \in Finalized \ allObjects
                 /\ i >= deleteIt[t] => finalizedObjects[t][i] \notin Destroyed
    /\ mutex = NoThread => \A o \in Reclaimed : o \in Finalized \cap Destroyed

\* A collection is in the middle of reclaiming: it has erased an object and
\* finalized it, and has not deleted it yet.
C3_Witness ==
    \E t \in Threads :
        /\ pc[t] = "delete"
        /\ deleteIt[t] = 1
        /\ Len(finalizedObjects[t]) >= 2
        /\ allObjects # {}

\* --------------------------------------------------------------------- C4
\* C4: no object is finalized or deleted twice, also when several threads
\* call collectGarbage(); and whenever no collection holds the lock, every
\* object that has left the registry was finalized once and deleted once, so
\* the collection that erased it did both before it returned.
C4_ExactlyOnce ==
    /\ \A o \in Objects : finalizeCount[o] <= 1 /\ destroyCount[o] <= 1
    /\ mutex = NoThread =>
           \A o \in Constructed \ allObjects :
               finalizeCount[o] = 1 /\ destroyCount[o] = 1
    /\ \A t \in Threads : mutex = t =>
           \A o \in Constructed \ startRegistry :
               finalizeCount[o] = 1 /\ destroyCount[o] = 1

\* A second collection has returned after an earlier one reclaimed objects.
C4_Witness ==
    /\ Returned
    /\ numCollections = 2
    /\ Reclaimed # {}
    /\ Constructed \ startRegistry # {}

\* --------------------------------------------------------------------- C5
\* C5 (as claimed): removeGCRoot at a count of 0 is fatal, so while the
\* process runs every root count is the number of addGCRoot calls minus the
\* number of removeGCRoot calls on the object, and is not negative.
C5_RootCountIsAddsMinusRemoves ==
    Running =>
        \A o \in Constructed :
            /\ adds[o] - removes[o] >= 0
            /\ numRootReferences[o] = adds[o] - removes[o]

\* --------------------------------------------------------------------- C6
\* C6: when a collection returns, a registered object that no registered
\* object referenced, and whose root calls all came before the collection,
\* has been reclaimed if those calls were as many removeGCRoot as addGCRoot,
\* and is still registered if they were more addGCRoot than removeGCRoot.
Unreferenced(o) == \A p \in startRegistry : o \notin DeclaredEdges(p)

C6_RootCounting ==
    Returned =>
        \A o \in startRegistry \ racedOn :
            Unreferenced(o) =>
                /\ adds[o] = removes[o] => o \notin allObjects
                /\ adds[o] > removes[o] => o \in allObjects

\* Two addGCRoot and one removeGCRoot kept an unreferenced object alive.
C6_Witness ==
    /\ Returned
    /\ \E o \in startRegistry \ racedOn :
          /\ Unreferenced(o)
          /\ adds[o] = 2
          /\ removes[o] = 1
          /\ o \in allObjects

\* --------------------------------------------------------------------- C7
\* The cycles of N distinct registered objects linked by declared edges.
IsCycle(c) ==
    /\ \A i, j \in DOMAIN c : i # j => c[i] # c[j]
    /\ \A i \in DOMAIN c : c[(i % Len(c)) + 1] \in DeclaredEdges(c[i])

Cycles ==
    UNION {{c \in [1 .. n -> startRegistry] : IsCycle(c)} : n \in 1 .. NumObjects}

\* C7: when a collection returns during which no root count changed, every
\* cycle none of whose members was rooted or reachable from a root has been
\* reclaimed entirely, and every cycle with exactly one rooted member is
\* still registered entirely.
C7_CycleTolerance ==
    (Returned /\ racedOn = {}) =>
        \A c \in Cycles :
            LET members == SeqToSet(c) IN
            /\ members \cap ReachableFrom(startRoots) = {} =>
                   members \cap allObjects = {}
            /\ Cardinality(members \cap startRoots) = 1 =>
                   members \subseteq allObjects

\* A cycle through three objects, none rooted, was reclaimed in one collection.
C7_Witness ==
    /\ Returned
    /\ racedOn = {}
    /\ \E c \in Cycles :
          /\ Len(c) = 3
          /\ SeqToSet(c) \cap ReachableFrom(startRoots) = {}
          /\ SeqToSet(c) \cap allObjects = {}

\* --------------------------------------------------------------------- C8
\* C8: when a collection returns and no construction, root call or field
\* write happened since the previous collection took the lock, it has erased,
\* finalized and deleted nothing and has logged a garbage count of 0.
C8_SecondCollectionReclaimsNothing ==
    (Returned /\ prevClean /\ raceOps = 0) =>
        /\ allObjects = startRegistry
        /\ \A o \in startRegistry : finalizeCount[o] = 0 /\ destroyCount[o] = 0
        /\ metrics.numGarbage = 0

\* The second of two back-to-back collections; the first one reclaimed an
\* object and kept another.
C8_Witness ==
    /\ Returned
    /\ prevClean
    /\ raceOps = 0
    /\ numCollections = 2
    /\ Destroyed # {}
    /\ allObjects # {}

\* --------------------------------------------------------------------- C9
\* C9 (as claimed): in every reachable state the registry is the set of
\* objects constructed and not yet deleted.
C9_RegistryIsConstructedMinusDestroyed ==
    allObjects = Constructed \ Destroyed

\* The objects a running collection has erased and not deleted yet.
InSweep(t) ==
    (IF pc[t] = "finalize" THEN {sweepObject[t]} ELSE {})
        \cup {finalizedObjects[t][i] :
                 i \in {j \in 1 .. Len(finalizedObjects[t]) : j >= deleteIt[t]}}

\* C9 (amended): the registry is the set of objects constructed and not yet
\* deleted, less the objects the collection holding the lock has erased and
\* not deleted yet; so it is exactly that set whenever no collection holds the
\* lock. A step that is not a step of collectGarbage's sweep or delete loop
\* (a construction, addGCRoot, removeGCRoot, a field write) erases, finalizes
\* and deletes nothing and starts no collection; a construction registers
\* exactly the new object.
C9_StateInv ==
    /\ allObjects = (Constructed \ Destroyed) \ UNION {InSweep(t) : t \in Threads}
    /\ mutex = NoThread => allObjects = Constructed \ Destroyed

C9_StepInv ==
    /\ (nextObject' # nextObject \/ adds' # adds \/ removes' # removes
            \/ edgeOps' # edgeOps) =>
           /\ allObjects \subseteq allObjects'
           /\ finalizeCount' = finalizeCount
           /\ destroyCount' = destroyCount
           /\ pc' = pc
           /\ mutex' = mutex
           /\ numCollections' = numCollections
    /\ nextObject' # nextObject =>
           /\ allObjects' = allObjects \cup {nextObject}
           /\ nextObject \notin allObjects
           /\ pc' = pc
    /\ allObjects' # allObjects =>
           \/ nextObject' # nextObject
           \/ \E t \in Threads : pc[t] = "sweep" /\ mutex = t
    /\ destroyCount' # destroyCount =>
           \E t \in Threads : pc[t] = "delete" /\ mutex = t

C9_RegistryOutsideSweep == []C9_StateInv /\ [][C9_StepInv]_vars

\* A root call is made on a registered object while others have been deleted.
C9_Witness ==
    /\ mutex = NoThread
    /\ Destroyed # {}
    /\ allObjects # {}
    /\ \E o \in allObjects : adds[o] > 0

\* -------------------------------------------------------------------- C10
\* C10: an object whose kind the switch has no case for never leaves the work
\* list as scanned: popping it ends the process, and then the registry is
\* what it was when the collection took the lock, and the collection has
\* erased, finalized and deleted nothing.
C10_UndeclaredKindIsFatal ==
    /\ \A t \in Threads :
          mutex = t =>
              \A o \in referencedObjects[t] :
                  kind[o] \notin DeclaredKinds =>
                      /\ pc[t] \in {"roots", "mark"}
                      /\ o \in SeqToSet(pendingScanObjects[t])
    /\ fatal = "unreachable" =>
          /\ mutex # NoThread
          /\ allObjects = startRegistry
          /\ \A t \in Threads :
                /\ finalizedObjects[t] = <<>>
                /\ sweepObject[t] = NULL
          /\ \A o \in startRegistry :
                finalizeCount[o] = 0 /\ destroyCount[o] = 0

\* The process died in the mark loop while unreached objects were registered.
C10_Witness ==
    /\ fatal = "unreachable"
    /\ \E t \in Threads :
          /\ mutex = t
          /\ startRegistry \ referencedObjects[t] # {}

\* -------------------------------------------------------------------- C11
\* The objects the collection holding the lock has reached.
Reached == UNION {referencedObjects[t] : t \in {u \in Threads : mutex = u}}

C11_ScanOnce ==
    \A o \in Objects :
        /\ pushCount[o] <= 1
        /\ scanCount[o] <= pushCount[o]
        /\ pushCount[o] = 1 => o \in Reached
        /\ \A t \in Threads :
              mutex = t =>
                  (o \in SeqToSet(pendingScanObjects[t])
                       <=> pushCount[o] = 1 /\ scanCount[o] = 0)

C11_Returns ==
    \A t \in Threads : (mutex = t) ~> (mutex # t \/ fatal # "none")

\* C11: a collection pushes an object onto the work list only when it adds it
\* to the referenced set, so it pushes and scans every object at most once,
\* also on cycles and self-references; and a collectGarbage() call that holds
\* the lock always comes to an end: it returns and releases the lock, or the
\* process ends with a fatal error.
C11_CollectionTerminates == []C11_ScanOnce /\ C11_Returns

\* The mark loop has emptied its work list after scanning every member of a
\* cycle through two or more objects exactly once.
C11_Witness ==
    \E t \in Threads :
        /\ mutex = t
        /\ pc[t] = "mark"
        /\ pendingScanObjects[t] = <<>>
        /\ \E c \in Cycles :
              /\ Len(c) >= 2
              /\ \A i \in DOMAIN c : scanCount[c[i]] = 1

\* -------------------------------------------------------------------- C12
\* The log line of the collection that just returned, against the registry
\* and the root counts of the moment it took the lock.
MetricsOfStart ==
    /\ metrics.numRoots = Cardinality(startRoots)
    /\ metrics.numObjects = Cardinality(startRegistry)
    /\ metrics.numGarbage = Cardinality(Reclaimed)
    /\ metrics.numObjects - metrics.numGarbage = Cardinality(allObjects)

\* C12 (as claimed): the metrics of each collection report the number of
\* registered objects whose root count was positive when the collection
\* started, the size of the registry before the collection, and the number of
\* objects the collection reclaimed; total minus garbage is the size of the
\* registry after the collection.
C12_MetricsReportStartOfCollection == Returned => MetricsOfStart

\* The same for a collection no root call raced with.
SerializedMetrics == (Returned /\ raceOps = 0) => MetricsOfStart

\* A rooted table holding a memory, and an unreferenced module: 1 root,
\* 3 objects, 1 garbage.
SerializedMetricsExample ==
    /\ Returned
    /\ raceOps = 0
    /\ plan = <<"table", "memory", "module">>
    /\ startRegistry = {1, 2, 3}
    /\ startRoots = {1}
    /\ fields[1].elements = <<2>>
    /\ metrics = [numRoots |-> 1, numObjects |-> 3, numGarbage |-> 1]
    /\ allObjects = {1, 2}

\* -------------------------------------------------------------------- C13
\* C13 (as claimed): a constructor call that registers an object which is in
\* the registry already ends the process with a fatal error.
C13_DoubleRegistrationIsFatal ==
    [][\A o \in allObjects :
           registrations'[o] > registrations[o] => fatal' # "none"]_vars

\* -------------------------------------------------------------------- C14
\* C14 (as claimed): whenever addGCRoot or removeGCRoot is applied to an
\* object, the object is registered and has not been deleted, however the
\* calls of the constructing thread interleave with a collectGarbage() of
\* another thread.
C14_RootCallsOnlyOnLiveObjects ==
    [][\A o \in Objects :
           (adds'[o] # adds[o] \/ removes'[o] # removes[o]) =>
               (o \in allObjects /\ destroyCount[o] = 0)]_vars

\* An object was constructed, a collection deleted it before its first root
\* call, and addGCRoot was then applied to the freed object.
RootCallOnDestroyed ==
    \E o \in Destroyed : adds[o] = 1 /\ removes[o] = 0 /\ numRootReferences[o] = 1

\* -------------------------------------------------------------------- C15
\* C15: no dangling edges. Whenever no collection holds the lock, every
\* declared edge of a registered object leads to a registered object, through
\* any sequence of constructions, root calls, field writes that store
\* registered objects, and collections. Once a collection sweeps, every
\* declared edge of an object it keeps leads to an object it keeps, so to no
\* object it erases, finalizes or deletes.
C15_NoDanglingEdges ==
    /\ mutex = NoThread =>
           \A o \in allObjects : DeclaredEdges(o) \subseteq allObjects
    /\ \A t \in Threads :
          (mutex = t /\ pc[t] \in {"sweep", "finalize", "delete"}) =>
              \A o \in referencedObjects[t] :
                  /\ o \in allObjects
                  /\ DeclaredEdges(o) \subseteq referencedObjects[t]
                  /\ DeclaredEdges(o) \cap (Finalized \cup Destroyed) = {}

\* A collection returned that kept an object with an edge and deleted an
\* object that had an edge to a kept object.
C15_Witness ==
    /\ Returned
    /\ \E o \in allObjects : DeclaredEdges(o) # {}
    /\ \E d \in Reclaimed \cap Destroyed : DeclaredEdges(d) \cap allObjects # {}

\* -------------------------------------------------------------------- C16
\* One iteration of the mark loop adds to the referenced set exactly the
\* objects the declared edges of the scanned object lead to.
C16_ScanFollowsDeclaredEdges ==
    \A t \in Threads :
        (mutex = t /\ pc[t] = "mark" /\ scanCount' # scanCount) =>
            LET pending == pendingScanObjects[t]
                scanObject == pending[Len(pending)]
            IN /\ scanCount'[scanObject] = scanCount[scanObject] + 1
               /\ referencedObjects'[t] =
                      referencedObjects[t] \cup DeclaredEdges(scanObject)

\* When a collection returns that no root call raced with: if its only root
\* was a function, the function's module, every object the module lists and
\* the module's compartment are registered; if its only root was an
\* exceptionType, nothing else is.
C16_RootedFunctionAndExceptionType ==
    (Returned /\ raceOps = 0) =>
        \A r \in startRegistry :
            startRoots = {r} =>
                /\ kind[r] = "function" =>
                       LET m == fields[r].moduleInstance IN
                       /\ allObjects = startRegistry \cap ReachableFrom({r})
                       /\ m # NULL =>
                              /\ m \in allObjects
                              /\ DeclaredEdges(m) \subseteq allObjects
                              /\ fields[m].compartment # NULL =>
                                     fields[m].compartment \in allObjects
                /\ kind[r] = "exceptionType" => allObjects = {r}

HasNullAndDuplicate(o) ==
    LET children == ChildReferences(o) IN
    /\ NULL \in SeqToSet(children)
    /\ \E i, j \in DOMAIN children :
          i # j /\ children[i] = children[j] /\ children[i] # NULL

\* C17: while a collection holds the lock, every entry of the work list is a
\* non-null object that is in the referenced set, no object is in the work
\* list twice or was pushed twice, and null is never in the referenced set;
\* null and repeated entries among an object's child references leave the
\* survivors what the declared edges make them: when a collection returns
\* that no root call raced with, the survivors are the registered objects
\* reachable from the roots.
C17_MarkInvariant ==
    /\ \A t \in Threads :
          mutex = t =>
              LET pending == pendingScanObjects[t] IN
              /\ NULL \notin referencedObjects[t]
              /\ referencedObjects[t] \subseteq startRegistry
              /\ \A i \in DOMAIN pending :
                    /\ pending[i] # NULL
                    /\ pending[i] \in referencedObjects[t]
                    /\ \A j \in DOMAIN pending : pending[j] = pending[i] => j = i
              /\ \A o \in Objects :
                    pushCount[o] = IF o \in referencedObjects[t] THEN 1 ELSE 0
    /\ (Returned /\ raceOps = 0) =>
           allObjects = startRegistry \cap ReachableFrom(startRoots)

\* The mark loop has scanned an object whose child references hold a null and
\* the same object twice; that object was pushed once and scanned in its turn.
C17_Witness ==
    \E t \in Threads :
        /\ mutex = t
        /\ pc[t] = "mark"
        /\ pendingScanObjects[t] = <<>>
        /\ \E o \in referencedObjects[t] :
              /\ scanCount[o] = 1
              /\ HasNullAndDuplicate(o)
              /\ \A c \in SeqToSet(ChildReferences(o)) \ {NULL} :
                    c # o /\ pushCount[c] = 1 /\ scanCount[c] = 1

\* -------------------------------------------------------------------- C18
\* The step is one of collectGarbage: no constructor call, root call or field
\* write is made in it.
IsCollectorStep ==
    /\ registrations' = registrations
    /\ adds' = adds
    /\ removes' = removes
    /\ edgeOps' = edgeOps

\* What a step of collectGarbage leaves alone: the root count, the kind and
\* the fields of every object, and the registry but for objects that the
\* collection did not reach, which it may erase; it finalizes and deletes
\* only objects it has erased and did not reach.
C18_Frame ==
    IsCollectorStep =>
        /\ numRootReferences' = numRootReferences
        /\ kind' = kind
        /\ fields' = fields
        /\ \A o \in allObjects' : DeclaredEdges(o)' = DeclaredEdges(o)
        /\ allObjects' \subseteq allObjects
        /\ \A o \in Objects :
              (\/ (o \in allObjects /\ o \notin allObjects')
               \/ finalizeCount'[o] # finalizeCount[o]
               \/ destroyCount'[o] # destroyCount[o]) =>
                  /\ o \notin allObjects'
                  /\ \E t \in Threads : mutex = t /\ o \notin referencedObjects[t]

\* C18: collectGarbage() reads the root counters and writes none: each of its
\* steps leaves the root count, the kind and the declared edges of every
\* object unchanged, and changes the registry only by erasing objects it did
\* not reach, the only objects it finalizes and deletes.
C18_CollectorOnlyRemovesUnreached == [][C18_Frame]_vars

\* A collection returned that reclaimed an object and kept a rooted object
\* that has a declared edge.
C18_Witness ==
    /\ Returned
    /\ Reclaimed \cap Destroyed # {}
    /\ \E o \in allObjects :
          /\ numRootReferences[o] > 0
          /\ adds[o] - removes[o] = numRootReferences[o]
          /\ DeclaredEdges(o) # {}

\* -------------------------------------------------------------------- C19
\* The objects the collection of thread t did not reach.
Unreached(t) == startRegistry \ referencedObjects[t]

\* C19: the sweep is two-phase. While a collection is in its sweep loop it
\* has deleted nothing; once it has deleted an object it is in its delete
\* loop and every object it did not reach has been erased from the registry
\* and finalized. So when a finalizer runs, no object this collection
\* reclaims has been deleted yet.
C19_TwoPhaseSweep ==
    \A t \in Threads :
        mutex = t =>
            /\ pc[t] \in {"roots", "mark", "sweep", "finalize"} =>
                   startRegistry \cap Destroyed = {}
            /\ startRegistry \cap Destroyed # {} =>
                   /\ pc[t] = "delete"
                   /\ Unreached(t) \cap allObjects = {}
                   /\ Unreached(t) \subseteq Finalized
            /\ pc[t] = "delete" =>
                   /\ SeqToSet(finalizedObjects[t]) = Unreached(t)
                   /\ startRegistry \cap Destroyed =
                          {finalizedObjects[t][i] : i \in 1 .. (deleteIt[t] - 1)}

\* The delete loop has deleted the first of three unreached objects, all of
\* them erased and finalized before.
C19_Witness ==
    \E t \in Threads :
        /\ mutex = t
        /\ pc[t] = "delete"
        /\ deleteIt[t] = 2
        /\ Cardinality(Unreached(t)) = 3
        /\ Cardinality(startRegistry \cap Destroyed) = 1

====
